---- MODULE Spec2Model ----
(***************************************************************************)
(* falcoctl "driver config": RunDriverConfig, commit, the local patcher    *)
(* (replaceDriverTypeInFalcoConfig) and the cluster patcher                *)
(* (replaceDriverTypeInK8SConfigMap) of cmd/driver/config/config.go.       *)
(*                                                                         *)
(* Text (file content, engine kinds) is a sequence of one-character        *)
(* strings, so that the literal substitution and the YAML reading of the   *)
(* local file are computed on the bytes.                                   *)
(***************************************************************************)
EXTENDS Integers, Sequences, FiniteSets, TLC

\* ------------------------------------------------------------------ bounds
\* Largest number of config maps held by the cluster store.
MaxConfigMaps == 2
\* Largest number of runs of the command, one after the other.
MaxRuns == 2

\* ------------------------------------------------------------ text helpers
\* p occurs in s at position k.
HasPrefixAt(s, p, k) ==
    /\ k >= 1
    /\ k + Len(p) - 1 <= Len(s)
    /\ \A j \in 1..Len(p) : s[k + j - 1] = p[j]

\* bytes.Index: position of the first occurrence of p in s, 0 when there is none.
Index(s, p) ==
    IF \E k \in 1..Len(s) : HasPrefixAt(s, p, k)
    THEN CHOOSE k \in 1..Len(s) :
            /\ HasPrefixAt(s, p, k)
            /\ \A m \in 1..(k - 1) : ~HasPrefixAt(s, p, m)
    ELSE 0

\* Number of (non-overlapping, left to right) occurrences of p in s.
RECURSIVE Count(_, _)
Count(s, p) ==
    LET k == Index(s, p)
    IN  IF k = 0 THEN 0
        ELSE 1 + Count(SubSeq(s, k + Len(p), Len(s)), p)

\* bytes.Replace(s, old, new, n): the first n occurrences, all of them when
\* n < 0.
RECURSIVE Replace(_, _, _, _)
Replace(s, old, new, n) ==
    LET k == Index(s, old)
    IN  IF n = 0 \/ k = 0 THEN s
        ELSE SubSeq(s, 1, k - 1) \o new
             \o Replace(SubSeq(s, k + Len(old), Len(s)), old, new, n - 1)

\* The lines of s (split at "\n"; a trailing newline ends the last line).
RECURSIVE SplitLines(_)
SplitLines(s) ==
    IF s = <<>> THEN <<>>
    ELSE LET k == Index(s, <<"\n">>)
         IN  IF k = 0 THEN <<s>>
             ELSE <<SubSeq(s, 1, k - 1)>> \o SplitLines(SubSeq(s, k + 1, Len(s)))

\* Number of leading spaces of a line.
IndentOf(line) ==
    CHOOSE n \in 0..Len(line) :
        /\ \A j \in 1..n : line[j] = " "
        /\ (n = Len(line) \/ line[n + 1] # " ")

RECURSIVE TrimRight(_)
TrimRight(s) ==
    IF s # <<>> /\ s[Len(s)] = " " THEN TrimRight(SubSeq(s, 1, Len(s) - 1)) ELSE s

Trim(s) == TrimRight(SubSeq(s, IndentOf(s) + 1, Len(s)))

\* A double-quoted scalar stands for the text between the quotes.
Unquote(v) ==
    IF Len(v) >= 2 /\ v[1] = "\"" /\ v[Len(v)] = "\""
    THEN SubSeq(v, 2, Len(v) - 1)
    ELSE v

\* ------------------------------------------------------------ driver types
TypeKmod      == <<"k", "m", "o", "d">>
TypeBpf       == <<"e", "b", "p", "f">>
TypeModernBpf == <<"m", "o", "d", "e", "r", "n", "-", "e", "b", "p", "f">>

\* The canonical strings of the closed enumeration DriverType.
DriverTypes == {TypeKmod, TypeBpf, TypeModernBpf}

\* drivertype.Parse: TRUE when the string is the canonical form of a DriverType.
Parses(engineKind) == engineKind \in DriverTypes

\* DriverType.String(): the canonical form (driver types are held by it).
String(driverType) == driverType

\* An engine kind of a deployment that runs without a driver.
Gvisor == <<"g", "v", "i", "s", "o", "r">>

\* Errors are values; Nil is "no error".
Nil == "nil"

\* Mutant: the validator accepts every engine kind.
checkAcceptsAll(engineKind) == Nil

\* checkFalcoRunsWithDrivers: the error returned for engineKind.
checkFalcoRunsWithDrivers(engineKind) ==
    IF ~Parses(engineKind) THEN "ValidationSkip" ELSE Nil

\* ------------------------------------------------- the local file's YAML
NL            == <<"\n">>
EngineKey     == <<"e", "n", "g", "i", "n", "e">>
KindKey       == <<"k", "i", "n", "d">>
\* const configKindKey = "kind: "
configKindKey == <<"k", "i", "n", "d", ":", " ">>

\* One line of a block mapping: its text after the indentation, whether it
\* carries nothing (blank or comment), and its key and scalar value.
BodyOf(line)  == SubSeq(line, IndentOf(line) + 1, Len(line))
IsBlank(line) == BodyOf(line) = <<>> \/ BodyOf(line)[1] = "#"
ColonOf(line) == Index(BodyOf(line), <<":">>)
\* "key:" must end the line or be followed by a space.
LineOk(line)  ==
    /\ ColonOf(line) > 1
    /\ (ColonOf(line) = Len(BodyOf(line)) \/ BodyOf(line)[ColonOf(line) + 1] = " ")
KeyOf(line)   == SubSeq(BodyOf(line), 1, ColonOf(line) - 1)
ValueOf(line) ==
    Unquote(Trim(SubSeq(BodyOf(line), ColonOf(line) + 1, Len(BodyOf(line)))))

\* Decoder state: the top-level key whose block is open, engine.kind as
\* decoded so far, whether it was seen, and whether decoding failed.
YamlStart == [section |-> <<>>, kind |-> <<>>, seen |-> FALSE, err |-> FALSE]

YamlStep(st, line) ==
    IF st.err \/ IsBlank(line) THEN st
    ELSE IF ~LineOk(line) THEN [st EXCEPT !.err = TRUE]
    ELSE IF IndentOf(line) = 0
    THEN IF ValueOf(line) = <<>>
         THEN [st EXCEPT !.section = KeyOf(line)]
         ELSE IF KeyOf(line) = EngineKey
              THEN [st EXCEPT !.err = TRUE]   \* a scalar where a mapping is expected
              ELSE [st EXCEPT !.section = <<>>]
    ELSE IF st.section = <<>>
         THEN [st EXCEPT !.err = TRUE]        \* an entry nested under a scalar
         ELSE IF st.section = EngineKey /\ KeyOf(line) = KindKey
              THEN IF st.seen
                   THEN [st EXCEPT !.err = TRUE]   \* key already defined
                   ELSE [st EXCEPT !.kind = ValueOf(line), !.seen = TRUE]
              ELSE st

RECURSIVE YamlFold(_, _, _)
YamlFold(lines, n, st) ==
    IF n > Len(lines) THEN st ELSE YamlFold(lines, n + 1, YamlStep(st, lines[n]))

\* yaml.Unmarshal(yamlFile, &cfg) into falcoCfg{Engine: engineCfg{Kind}}:
\* the error and cfg.Engine.Kind (the zero value "" when the field is absent).
Unmarshal(bytes) ==
    LET st == YamlFold(SplitLines(bytes), 1, YamlStart)
    IN  [err  |-> IF st.err THEN "ParseError" ELSE Nil,
         Kind |-> IF st.err THEN <<>> ELSE st.kind]

\* ------------------------------------------------ contents of falco.yaml
Indent == <<" ", " ">>
\* "  kind: X", "  kind:  X" (two spaces) and "  kind: "X"" (quoted).
KindLine(fmt, X) ==
    CASE fmt = "plain"  -> Indent \o configKindKey \o X \o NL
      [] fmt = "spaced" -> Indent \o configKindKey \o <<" ">> \o X \o NL
      [] fmt = "quoted" -> Indent \o configKindKey \o <<"\"">> \o X \o <<"\"">> \o NL

Formats   == {"plain", "spaced", "quoted"}
FileKinds == {TypeKmod, TypeBpf, Gvisor}
\* Kinds named by text outside the engine block.
NoiseKinds == {TypeKmod, TypeBpf}

EngineLine == EngineKey \o <<":">> \o NL
PreLine    == <<"p", "r", "e", ":">> \o NL
PostLine   == <<"p", "o", "s", "t", ":">> \o NL

\* Text before the engine block: nothing, a comment naming a kind, or another
\* block with a kind field of its own.
PreBlocks ==
    {<<>>}
    \cup {<<"#", " ">> \o configKindKey \o Y \o NL : Y \in NoiseKinds}
    \cup {PreLine \o KindLine("plain", Y) : Y \in NoiseKinds}

\* The engine block: absent, without a kind, or with a kind in one format.
EngineBlocks ==
    {<<>>, EngineLine}
    \cup {EngineLine \o KindLine(fmt, X) : fmt \in Formats, X \in FileKinds}

\* Text after the engine block.
PostBlocks ==
    {<<>>} \cup {PostLine \o KindLine("plain", Y) : Y \in NoiseKinds}

\* Contents that do not decode: a line without a colon, a scalar engine.
BadFiles ==
    {EngineKey \o NL, EngineKey \o <<":", " ">> \o TypeKmod \o NL}

Files ==
    {a \o b \o c : a \in PreBlocks, b \in EngineBlocks, c \in PostBlocks}
    \cup BadFiles

\* The file: missing/unreadable, or readable with some content.
Missing      == [exists |-> FALSE, content |-> <<>>]
FileOf(c)    == [exists |-> TRUE, content |-> c]
FileStates   == {Missing} \cup {FileOf(c) : c \in Files}
\* The files tried together with a cluster run.
FewFileStates ==
    {Missing, FileOf(EngineLine \o KindLine("plain", TypeKmod))}

\* --------------------------------------------------- the cluster's store
\* const configMapEngineKindKey = "engine.kind"
configMapEngineKindKey == "engine.kind"

\* Data of a config map: a set of <<key, value>> pairs, one per key.
\* configMap.Data[key]: the value, or "" when the key is absent.
DataGet(data, key) ==
    IF \E p \in data : p[1] = key
    THEN (CHOOSE p \in data : p[1] = key)[2]
    ELSE <<>>

DataSet(data, key, value) ==
    {p \in data : p[1] # key} \cup {<<key, value>>}

ClusterKinds == {TypeKmod, TypeBpf, Gvisor}
DataChoices  ==
    {{}} \cup {{<<configMapEngineKindKey, v>>} : v \in ClusterKinds}

\* Namespaces of the cluster; every stored config map carries the
\* discovery label.
ClusterNamespaces == {"falco", "other"}
CMNames == <<"falco", "falco-rules", "falco-extra", "falco-more">>

StoresOf(max) ==
    UNION { { [j \in 1..n |-> [Namespace |-> f[j].ns, Name |-> CMNames[j], Data |-> f[j].data]] :
                f \in [1..n -> [ns : ClusterNamespaces, data : DataChoices]] } :
            n \in 0..max }

Stores    == StoresOf(MaxConfigMaps)
\* The stores tried together with a local run.
FewStores == StoresOf(1)

\* ------------------------------------------------------------- options
\* driverConfigOptions: Update, Namespace, KubeConfig and Driver.Type.
Options ==
    [Update : BOOLEAN, Namespace : {"", "falco"},
     KubeConfig : {"", "/root/.kube/config"}, Type : DriverTypes]

\* ------------------------------------------- ConfigMapList.Size()
\* Size() of the client's list type is the byte length of the list's
\* protobuf encoding (every field is preceded by a tag byte and a length
\* varint), not the number of Items. Metadata strings are taken empty, the
\* least the encoding can be.
Sov(x) == IF x < 128 THEN 1 ELSE 2

\* ListMeta: SelfLink, ResourceVersion, Continue, each tag + length.
ListMetaSize == 6
\* ObjectMeta: six strings, Generation and CreationTimestamp, each tag + length.
ObjectMetaSize == 16
\* len("engine.kind")
EngineKindKeyLen == 11

RECURSIVE DataSize(_)
DataSize(data) ==
    IF data = {} THEN 0
    ELSE LET p == CHOOSE q \in data : TRUE
             e == 1 + EngineKindKeyLen + 1 + 1 + Len(p[2]) + 1
         IN  1 + e + Sov(e) + DataSize(data \ {p})

ConfigMapSize(cm) ==
    1 + ObjectMetaSize + Sov(ObjectMetaSize) + DataSize(cm.Data)

RECURSIVE ItemsSize(_)
ItemsSize(items) ==
    IF items = <<>> THEN 0
    ELSE 1 + ConfigMapSize(Head(items)) + Sov(ConfigMapSize(Head(items)))
         + ItemsSize(Tail(items))

\* configMapList.Size()
Size(list) == 1 + ListMetaSize + Sov(ListMetaSize) + ItemsSize(list.Items)

\* --------------------------------------------------------------- state
VARIABLES
    o,              \* the command's options
    falcoYaml,      \* /etc/falco/falco.yaml
    configMaps,     \* the config maps held by the cluster
    pc,             \* position of the run
    yamlFile,       \* content read by replaceDriverTypeInFalcoConfig
    cfg,            \* the decoded falcoCfg
    configMapList,  \* the listing held by replaceDriverTypeInK8SConfigMap
    i,              \* its loop index
    err,            \* what commit returned ("unset" until it returns)
    ret,            \* what RunDriverConfig returned ("unset" until it returns)
    calls,          \* file, cluster and store operations, in order
    patches,        \* the patch calls, in order
    reads,          \* indices at which Items was read, in order
    orig,           \* falcoYaml and configMaps at the start of the run
    run,            \* number of the run of the command (1, 2, ...)
    prev            \* falcoYaml and configMaps as the previous run left them

vars == <<o, falcoYaml, configMaps, pc, yamlFile, cfg, configMapList, i,
          err, ret, calls, patches, reads, orig, run, prev>>

Init ==
    /\ o \in Options
    /\ falcoYaml \in (IF o.Namespace = "" THEN FileStates ELSE FewFileStates)
    /\ configMaps \in (IF o.Namespace = "" THEN FewStores ELSE Stores)
    /\ pc = "RunDriverConfig"
    /\ yamlFile = <<>>
    /\ cfg = [Engine |-> [Kind |-> <<>>]]
    /\ configMapList = [Items |-> <<>>]
    /\ i = 0
    /\ err = "unset"
    /\ ret = "unset"
    /\ calls = <<>>
    /\ patches = <<>>
    /\ reads = <<>>
    /\ orig = [file |-> falcoYaml, maps |-> configMaps]
    /\ run = 1
    /\ prev = [file |-> falcoYaml, maps |-> configMaps]

\* ------------------------------------------------------ RunDriverConfig
\* Mutant: the update option is not looked at.
AfterStartAlwaysCommits(update) == "commit"

\* if o.Update { commit } else straight to config.StoreDriver
AfterStart(update) == IF update THEN "commit" ELSE "StoreDriver"

RunDriverConfig ==
    /\ pc = "RunDriverConfig"
    /\ pc' = AfterStart(o.Update)
    /\ UNCHANGED <<o, falcoYaml, configMaps, yamlFile, cfg, configMapList, i,
                   err, ret, calls, patches, reads, orig, run, prev>>

\* Mutant: the test on the namespace is inverted.
RouteInverted(namespace) == IF namespace = "" THEN "BuildConfig" ELSE "ReadFile"

\* commit: a namespace selects the cluster patcher, none the local one.
Route(namespace) == IF namespace # "" THEN "BuildConfig" ELSE "ReadFile"

commit ==
    /\ pc = "commit"
    /\ pc' = Route(o.Namespace)
    /\ UNCHANGED <<o, falcoYaml, configMaps, yamlFile, cfg, configMapList, i,
                   err, ret, calls, patches, reads, orig, run, prev>>

\* Mutant: the error of commit is dropped and the selection stored anyway.
AfterCommitIgnoringErr(e) == "StoreDriver"

\* if err := o.commit(...); err != nil { return err }; return StoreDriver(...)
AfterCommit(e) == IF e # Nil THEN "done" ELSE "StoreDriver"

CommitReturn ==
    /\ pc = "commitReturn"
    /\ pc' = AfterCommit(err)
    /\ ret' = IF AfterCommit(err) = "done" THEN err ELSE ret
    /\ UNCHANGED <<o, falcoYaml, configMaps, yamlFile, cfg, configMapList, i,
                   err, calls, patches, reads, orig, run, prev>>

\* config.StoreDriver(o.Driver.ToDriverConfig(), o.ConfigFile)
StoreDriver ==
    /\ pc = "StoreDriver"
    /\ calls' = Append(calls, "StoreDriver")
    /\ \E ok \in BOOLEAN : ret' = IF ok THEN Nil ELSE "StoreError"
    /\ pc' = "done"
    /\ UNCHANGED <<o, falcoYaml, configMaps, yamlFile, cfg, configMapList, i,
                   err, patches, reads, orig, run, prev>>

\* ----------------------------------------- replaceDriverTypeInFalcoConfig
\* yamlFile, err := os.ReadFile(falcoCfgFile)
ReadFile ==
    /\ pc = "ReadFile"
    /\ calls' = Append(calls, "ReadFile")
    /\ IF falcoYaml.exists
       THEN /\ yamlFile' = falcoYaml.content
            /\ pc' = "Unmarshal"
            /\ err' = err
       ELSE /\ err' = "IOError"
            /\ pc' = "commitReturn"
            /\ yamlFile' = yamlFile
    /\ UNCHANGED <<o, falcoYaml, configMaps, cfg, configMapList, i, ret,
                   patches, reads, orig, run, prev>>

\* Mutant: the error of yaml.Unmarshal is dropped.
UnmarshalCfgIgnoringErr ==
    /\ pc = "Unmarshal"
    /\ cfg' = [Engine |-> [Kind |-> Unmarshal(yamlFile).Kind]]
    /\ pc' = "checkLocal"
    /\ UNCHANGED <<o, falcoYaml, configMaps, yamlFile, configMapList, i, err,
                   ret, calls, patches, reads, orig, run, prev>>

\* yaml.Unmarshal(yamlFile, &cfg)
UnmarshalCfg ==
    /\ pc = "Unmarshal"
    /\ LET r == Unmarshal(yamlFile)
       IN  IF r.err # Nil
           THEN /\ err' = r.err
                /\ pc' = "commitReturn"
                /\ cfg' = cfg
           ELSE /\ cfg' = [Engine |-> [Kind |-> r.Kind]]
                /\ pc' = "checkLocal"
                /\ err' = err
    /\ UNCHANGED <<o, falcoYaml, configMaps, yamlFile, configMapList, i, ret,
                   calls, patches, reads, orig, run, prev>>

\* checkFalcoRunsWithDrivers(cfg.Engine.Kind): warn and return nil, or go on.
CheckLocal ==
    /\ pc = "checkLocal"
    /\ IF checkFalcoRunsWithDrivers(cfg.Engine.Kind) # Nil
       THEN /\ err' = Nil
            /\ pc' = "commitReturn"
       ELSE /\ pc' = "ReplaceTextInFile"
            /\ err' = err
    /\ UNCHANGED <<o, falcoYaml, configMaps, yamlFile, cfg, configMapList, i,
                   ret, calls, patches, reads, orig, run, prev>>

\* Mutant: every occurrence is replaced (n < 0).
EveryOccurrence == 0 - 1

\* Mutant: the value alone is searched for, without the "kind: " prefix.
SearchForValueOnly(kind) == kind

\* The arguments given to utils.ReplaceTextInFile.
SearchFor(kind)      == configKindKey \o kind
ReplacedWith(dtype)  == configKindKey \o String(dtype)
Occurrences          == 1

\* utils.ReplaceTextInFile(path, searchFor, replacedWith, n): the content it
\* writes back.
ReplaceText(content, searchFor, replacedWith, n) ==
    Replace(content, searchFor, replacedWith, n)

\* What a failed write can leave: the file as it was, or truncated.
FailedWrite(content) == {content, <<>>}

ReplaceTextInFile ==
    /\ pc = "ReplaceTextInFile"
    /\ calls' = calls \o <<"Stat", "ReadFile", "WriteFile">>
    /\ \E ok \in BOOLEAN :
         IF ok
         THEN /\ falcoYaml' =
                   [falcoYaml EXCEPT !.content =
                       ReplaceText(falcoYaml.content, SearchFor(cfg.Engine.Kind),
                                   ReplacedWith(o.Type), Occurrences)]
              /\ err' = Nil
         ELSE /\ \E c \in FailedWrite(falcoYaml.content) :
                   falcoYaml' = [falcoYaml EXCEPT !.content = c]
              /\ err' = "IOError"
    /\ pc' = "commitReturn"
    /\ UNCHANGED <<o, configMaps, yamlFile, cfg, configMapList, i, ret,
                   patches, reads, orig, run, prev>>

\* ---------------------------------------- replaceDriverTypeInK8SConfigMap
\* clientcmd.BuildConfigFromFlags("", o.KubeConfig) or rest.InClusterConfig()
ConfigCall(kubeConfig) ==
    IF kubeConfig # "" THEN "BuildConfigFromFlags" ELSE "InClusterConfig"

BuildConfig ==
    /\ pc = "BuildConfig"
    /\ calls' = Append(calls, ConfigCall(o.KubeConfig))
    /\ \E ok \in BOOLEAN :
         IF ok
         THEN pc' = "NewForConfig" /\ err' = err
         ELSE pc' = "commitReturn" /\ err' = "ConnectionError"
    /\ UNCHANGED <<o, falcoYaml, configMaps, yamlFile, cfg, configMapList, i,
                   ret, patches, reads, orig, run, prev>>

\* cl, err := kubernetes.NewForConfig(cfg)
NewForConfig ==
    /\ pc = "NewForConfig"
    /\ calls' = Append(calls, "NewForConfig")
    /\ \E ok \in BOOLEAN :
         IF ok
         THEN pc' = "List" /\ err' = err
         ELSE pc' = "commitReturn" /\ err' = "ConnectionError"
    /\ UNCHANGED <<o, falcoYaml, configMaps, yamlFile, cfg, configMapList, i,
                   ret, patches, reads, orig, run, prev>>

\* The labelled config maps of a namespace, in the store's order.
Matching(maps, namespace) ==
    SelectSeq(maps, LAMBDA cm : cm.Namespace = namespace)

\* cl.CoreV1().ConfigMaps(o.Namespace).List(ctx, ...)
List ==
    /\ pc = "List"
    /\ calls' = Append(calls, "List")
    /\ \E ok \in BOOLEAN :
         IF ok
         THEN /\ configMapList' = [Items |-> Matching(configMaps, o.Namespace)]
              /\ pc' = "SizeCheck"
              /\ err' = err
         ELSE /\ configMapList' = configMapList
              /\ pc' = "commitReturn"
              /\ err' = "ConnectionError"
    /\ UNCHANGED <<o, falcoYaml, configMaps, yamlFile, cfg, i, ret, patches,
                   reads, orig, run, prev>>

\* if configMapList.Size() == 0 { return errors.New("no configmaps ...") }
IsEmptyList(list) == Size(list) = 0

SizeCheck ==
    /\ pc = "SizeCheck"
    /\ IF IsEmptyList(configMapList)
       THEN /\ err' = "NotFoundError"
            /\ pc' = "commitReturn"
            /\ i' = i
       ELSE /\ i' = 0
            /\ pc' = "ForCond"
            /\ err' = err
    /\ UNCHANGED <<o, falcoYaml, configMaps, yamlFile, cfg, configMapList, ret,
                   calls, patches, reads, orig, run, prev>>

\* for i := 0; i < configMapList.Size(); i++
LoopCond(k, list) == k < Size(list)

ForCond ==
    /\ pc = "ForCond"
    /\ IF LoopCond(i, configMapList)
       THEN pc' = "ForBody" /\ err' = err
       ELSE pc' = "commitReturn" /\ err' = Nil      \* return nil
    /\ UNCHANGED <<o, falcoYaml, configMaps, yamlFile, cfg, configMapList, i,
                   ret, calls, patches, reads, orig, run, prev>>

\* configMapList.Items[i] (Go indexes from 0): an index outside the slice
\* panics with "index out of range".
InRange(k, list) == k < Len(list.Items)
ItemAt(k, list)  == list.Items[k + 1]

\* currEngineKind := configMap.Data[configMapEngineKindKey]
currEngineKind(configMap) == DataGet(configMap.Data, configMapEngineKindKey)

\* Mutant: the cluster patcher does not skip.
AfterCheckNeverSkips(e) == "Patch"

\* After the validator: "continue" or the patch call.
AfterCheck(e) == IF e # Nil THEN "continue" ELSE "Patch"

ForBody ==
    /\ pc = "ForBody"
    /\ reads' = Append(reads, i)
    /\ IF ~InRange(i, configMapList)
       THEN pc' = "panic" /\ i' = i
       ELSE IF AfterCheck(checkFalcoRunsWithDrivers(
                              currEngineKind(ItemAt(i, configMapList)))) = "continue"
            THEN pc' = "ForCond" /\ i' = i + 1
            ELSE pc' = "Patch" /\ i' = i
    /\ UNCHANGED <<o, falcoYaml, configMaps, yamlFile, cfg, configMapList, err,
                   ret, calls, patches, orig, run, prev>>

\* Mutant: the patch names the key of the local file, not the data key.
PayloadWrongKey(dtype) ==
    <<[Op |-> "replace", Path |-> <<"/data/", "kind">>, Value |-> String(dtype)]>>

\* payload: [{"op":"replace","path":"/data/engine.kind","value":<type>}]
Payload(dtype) ==
    <<[Op |-> "replace", Path |-> <<"/data/", configMapEngineKindKey>>,
       Value |-> String(dtype)]>>

\* The API server applying a JSON patch to the config map namespace/name.
ApplyOp(cm, op) ==
    IF op.Op = "replace" /\ op.Path[1] = "/data/"
    THEN [cm EXCEPT !.Data = DataSet(cm.Data, op.Path[2], op.Value)]
    ELSE cm

RECURSIVE ApplyOps(_, _)
ApplyOps(cm, ops) ==
    IF ops = <<>> THEN cm ELSE ApplyOps(ApplyOp(cm, Head(ops)), Tail(ops))

\* Mutant: the patch reaches every config map of the namespace.
ApplyPatchByNamespace(maps, namespace, name, ops) ==
    [j \in 1..Len(maps) |->
        IF maps[j].Namespace = namespace
        THEN ApplyOps(maps[j], ops)
        ELSE maps[j]]

ApplyPatch(maps, namespace, name, ops) ==
    [j \in 1..Len(maps) |->
        IF maps[j].Namespace = namespace /\ maps[j].Name = name
        THEN ApplyOps(maps[j], ops)
        ELSE maps[j]]

\* A "replace" of a path that does not exist is rejected by the server.
Patchable(maps, namespace, name, ops) ==
    \E j \in 1..Len(maps) :
        /\ maps[j].Namespace = namespace /\ maps[j].Name = name
        /\ \A n \in 1..Len(ops) :
              \E p \in maps[j].Data : p[1] = ops[n].Path[2]

\* Mutant: a failed patch call does not end the loop.
AfterPatchIgnoringErr(ok) == "ForCond"

\* Mutant: a failed patch call is made again.
AfterPatchRetrying(ok) == IF ok THEN "ForCond" ELSE "Patch"

\* After a patch call: the next iteration, or "return err".
AfterPatch(ok) == IF ok THEN "ForCond" ELSE "commitReturn"

\* cl.CoreV1().ConfigMaps(configMap.Namespace).Patch(ctx, configMap.Name, ...)
Patch ==
    /\ pc = "Patch"
    /\ calls' = Append(calls, "Patch")
    /\ LET configMap == ItemAt(i, configMapList)
       IN  \E ok \in BOOLEAN :
             /\ ok => Patchable(configMaps, configMap.Namespace, configMap.Name,
                                Payload(o.Type))
             /\ patches' = Append(patches,
                    [i |-> i, Namespace |-> configMap.Namespace,
                     Name |-> configMap.Name, payload |-> Payload(o.Type),
                     ok |-> ok])
             /\ configMaps' =
                    IF ok
                    THEN ApplyPatch(configMaps, configMap.Namespace,
                                    configMap.Name, Payload(o.Type))
                    ELSE configMaps
             /\ pc' = AfterPatch(ok)
             /\ i' = IF AfterPatch(ok) = "ForCond" THEN i + 1 ELSE i
             /\ err' = IF AfterPatch(ok) = "ForCond" THEN err ELSE "PatchApplyError"
    /\ UNCHANGED <<o, falcoYaml, yamlFile, cfg, configMapList, ret, reads, orig, run, prev>>

\* --------------------------------------------------------- a further run
\* The command is run again, with the same options, after a run whose commit
\* returned nil: a new process, starting from the stores as they are.
RunAgain ==
    /\ pc = "done"
    /\ err = Nil
    /\ run < MaxRuns
    /\ run' = run + 1
    /\ prev' = [file |-> falcoYaml, maps |-> configMaps]
    /\ orig' = [file |-> falcoYaml, maps |-> configMaps]
    /\ pc' = "RunDriverConfig"
    /\ yamlFile' = <<>>
    /\ cfg' = [Engine |-> [Kind |-> <<>>]]
    /\ configMapList' = [Items |-> <<>>]
    /\ i' = 0
    /\ err' = "unset"
    /\ ret' = "unset"
    /\ calls' = <<>>
    /\ patches' = <<>>
    /\ reads' = <<>>
    /\ UNCHANGED <<o, falcoYaml, configMaps>>

\* ------------------------------------------------------- specification
Next ==
    \/ RunDriverConfig
    \/ commit
    \/ CommitReturn
    \/ StoreDriver
    \/ ReadFile
    \/ UnmarshalCfg
    \/ CheckLocal
    \/ ReplaceTextInFile
    \/ BuildConfig
    \/ NewForConfig
    \/ List
    \/ SizeCheck
    \/ ForCond
    \/ ForBody
    \/ Patch
    \/ RunAgain

Spec == Init /\ [][Next]_vars

\* ------------------------------------------------------------ properties
Called(c)  == \E n \in 1..Len(calls) : calls[n] = c
NCalls(c)  == Cardinality({n \in 1..Len(calls) : calls[n] = c})
Terminal   == pc \in {"done", "panic"}
\* The listing call was made and succeeded.
Listed     == Called("List") /\ err # "ConnectionError"
NItems     == Len(configMapList.Items)
Eligible(k) == Parses(currEngineKind(configMapList.Items[k + 1]))
PatchedIndices == {patches[n].i : n \in 1..Len(patches)}
AllPatchesOk == \A n \in 1..Len(patches) : patches[n].ok
\* engine.kind of the file as it was at the start.
OrigKind   == Unmarshal(orig.file.content).Kind
\* The stored config map a patch call was addressed to, as it was at the start.
OrigTargets(p) ==
    {j \in 1..Len(orig.maps) :
        orig.maps[j].Namespace = p.Namespace /\ orig.maps[j].Name = p.Name}

\* C1: a target (the local file or a config map) has been written or patched
\* only if the engine kind read from it parses to a driver type; a target
\* whose engine kind does not parse is never changed.
C1_MutatedOnlyIfDriverKind ==
    /\ (Called("WriteFile") \/ falcoYaml # orig.file) =>
          /\ Parses(cfg.Engine.Kind)
          /\ cfg.Engine.Kind = OrigKind
    /\ \A n \in 1..Len(patches) :
          /\ OrigTargets(patches[n]) # {}
          /\ \A j \in OrigTargets(patches[n]) :
                Parses(DataGet(orig.maps[j].Data, configMapEngineKindKey))
    /\ \A j \in 1..Len(configMaps) :
          configMaps[j] # orig.maps[j] =>
             Parses(DataGet(orig.maps[j].Data, configMapEngineKindKey))

\* C1 witness: a cluster run that skipped a config map without a driver kind
\* and patched another one.
C1_Witness ==
    /\ \E k \in 0..(NItems - 1) :
          /\ ~Eligible(k)
          /\ \E n \in 1..Len(reads) : reads[n] = k
    /\ \E n \in 1..Len(patches) : patches[n].ok
    /\ Terminal

\* C2 (as stated): with exactly one ineligible config map among the listed
\* ones and no failing patch call, every eligible one is patched, the
\* ineligible one is skipped and the cluster patcher returns success.
C2_SkipOneReturnsSuccess ==
    ( /\ Terminal /\ o.Update /\ Listed /\ NItems >= 2 /\ AllPatchesOk
      /\ Cardinality({k \in 0..(NItems - 1) : ~Eligible(k)}) = 1 )
    => /\ pc = "done"
       /\ err = Nil
       /\ PatchedIndices = {k \in 0..(NItems - 1) : Eligible(k)}

\* C3: when a patch call fails for config map k, the cluster patcher returns
\* that failure and no config map after k gets a patch call.
C3_PatchFailureAborts ==
    \A n \in 1..Len(patches) :
        ~patches[n].ok =>
            /\ n = Len(patches)
            /\ \A m \in 1..Len(patches) : patches[m].i <= patches[n].i
            /\ pc \in {"commitReturn", "done"}
            /\ err = "PatchApplyError"
            /\ pc = "done" => ret = "PatchApplyError"

\* C3 witness: the patch of config map 0 failed, config map 1 is eligible,
\* and the run has returned.
C3_Witness ==
    /\ pc = "done"
    /\ NItems >= 2
    /\ Eligible(0) /\ Eligible(1)
    /\ Len(patches) = 1 /\ patches[1].i = 0 /\ ~patches[1].ok

\* C4 (as stated): a listing that succeeds with no config map makes the
\* cluster patcher fail with NotFoundError, nothing being changed.
C4_EmptyListingNotFound ==
    (Terminal /\ o.Update /\ Listed /\ NItems = 0)
    => /\ pc = "done"
       /\ err = "NotFoundError"
       /\ patches = <<>>
       /\ configMaps = orig.maps

\* A local patcher run that got as far as writing the file and returned nil.
LocalSuccess ==
    /\ o.Update /\ o.Namespace = ""
    /\ Called("WriteFile")
    /\ err = Nil
\* The text searched for and the text put in its place by that run.
OldText == configKindKey \o OrigKind
NewText == configKindKey \o String(o.Type)
\* now is before with the len bytes at position k replaced by text.
SplicedAt(before, now, k, len, text) ==
    /\ Len(now) = Len(before) - len + Len(text)
    /\ \A j \in 1..(k - 1) : now[j] = before[j]
    /\ \A j \in 1..Len(text) : now[k + j - 1] = text[j]
    /\ \A j \in (k + len)..Len(before) : now[j - len + Len(text)] = before[j]
\* Position of the first occurrence of text in s, 0 when there is none.
FirstAt(s, text) ==
    IF \E k \in 1..Len(s) : HasPrefixAt(s, text, k)
    THEN CHOOSE k \in 1..Len(s) :
            HasPrefixAt(s, text, k) /\ \A m \in 1..(k - 1) : ~HasPrefixAt(s, text, m)
    ELSE 0

\* C5 (as stated): a successful local run on a file whose engine kind is a
\* driver type replaces the first occurrence of "kind: <old>" by
\* "kind: <new>", every other byte staying as it was.
C5_ExactlyOneOccurrenceChanged ==
    LocalSuccess =>
        /\ FirstAt(orig.file.content, OldText) > 0
        /\ SplicedAt(orig.file.content, falcoYaml.content,
                     FirstAt(orig.file.content, OldText), Len(OldText), NewText)

\* C5 (amended): a successful local run on a file whose engine kind is a
\* driver type changes at most one occurrence of "kind: <old>": the first one
\* when the text occurs in the file, and nothing when it does not; every
\* other byte stays as it was.
C5_AtMostOneOccurrenceChanged ==
    LocalSuccess =>
        IF FirstAt(orig.file.content, OldText) > 0
        THEN SplicedAt(orig.file.content, falcoYaml.content,
                       FirstAt(orig.file.content, OldText), Len(OldText), NewText)
        ELSE falcoYaml.content = orig.file.content

\* C5 witness: a successful run on a file holding the old text twice, with a
\* new type that differs from the old one.
C5_Witness ==
    /\ LocalSuccess
    /\ pc = "done"
    /\ Count(orig.file.content, OldText) >= 2
    /\ OrigKind # String(o.Type)
    /\ falcoYaml.content # orig.file.content

\* C6 (as stated): after a successful local run on a file whose engine kind
\* is a driver type, engine.kind decoded from the file is the new type.
C6_ReparsedKindIsNewType ==
    LocalSuccess =>
        /\ Unmarshal(falcoYaml.content).err = Nil
        /\ Unmarshal(falcoYaml.content).Kind = String(o.Type)

\* C7 (as stated): for an engine kind that is not a driver type both patchers
\* leave their target as it was and report success: the local patcher on
\* such a file, the cluster patcher on a non-empty listing of such config maps.
C7_IneligibleLeftAloneWithSuccess ==
    /\ ( /\ Terminal /\ o.Update /\ o.Namespace = ""
         /\ orig.file.exists /\ Unmarshal(orig.file.content).err = Nil
         /\ ~Parses(OrigKind) )
       => (pc = "done" /\ err = Nil /\ falcoYaml = orig.file)
    /\ ( /\ Terminal /\ o.Update /\ Listed /\ NItems >= 1
         /\ \A k \in 0..(NItems - 1) : ~Eligible(k) )
       => (pc = "done" /\ err = Nil /\ configMaps = orig.maps)

\* C8: the driver selection is stored only when commit did not fail, and it
\* is stored, after the commit, whenever commit returned success; when commit
\* returned an error the store is not written and the error is returned.
C8_StoreIffCommitSucceeded ==
    /\ Called("StoreDriver") =>
          /\ err \in {Nil, "unset"}
          /\ err = "unset" => ~o.Update
          /\ calls[Len(calls)] = "StoreDriver"
          /\ NCalls("StoreDriver") = 1
    /\ (pc = "done" /\ err = Nil) => Called("StoreDriver")
    /\ err \notin {Nil, "unset"} =>
          /\ ~Called("StoreDriver")
          /\ pc \in {"commitReturn", "done"}
          /\ pc = "done" => ret = err

\* C8 witness: a commit that skipped its only target returned success and
\* the selection was stored.
C8_Witness ==
    /\ pc = "done" /\ o.Update /\ err = Nil
    /\ ~Called("WriteFile") /\ falcoYaml = orig.file
    /\ Called("StoreDriver")

LocalCalls   == {"ReadFile", "Stat", "WriteFile"}
ClusterCalls == {"BuildConfigFromFlags", "InClusterConfig", "NewForConfig",
                 "List", "Patch"}
UsedLocal    == \E c \in LocalCalls : Called(c)
UsedCluster  == \E c \in ClusterCalls : Called(c)

\* C9: a commit runs one patcher, chosen by the namespace alone: with a
\* namespace the local file is neither read nor written, without one the
\* cluster is not contacted; a failing patcher is not followed by the other
\* one nor run again.
C9_OnePatcherByNamespace ==
    /\ o.Namespace # "" => (~UsedLocal /\ falcoYaml = orig.file)
    /\ o.Namespace = "" => (~UsedCluster /\ patches = <<>> /\ configMaps = orig.maps)
    /\ (pc \in {"commitReturn", "done"} /\ o.Update) =>
          IF o.Namespace # "" THEN UsedCluster ELSE UsedLocal
    /\ NCalls("BuildConfigFromFlags") + NCalls("InClusterConfig") <= 1
    /\ NCalls("List") <= 1
    /\ NCalls("WriteFile") <= 1
    /\ NCalls("ReadFile") <= 2
    /\ ~o.Update => (~UsedLocal /\ ~UsedCluster)

\* C9 witness: the cluster patcher failed while a readable local file
\* exists, and the run returned that failure.
C9_Witness ==
    /\ pc = "done" /\ o.Namespace # "" /\ o.Update
    /\ err \notin {Nil, "unset"}
    /\ orig.file.exists

\* C10: within a cluster run the config maps are read one at a time in
\* increasing listing index and each gets at most one patch call.
C10_SequentialNoRetry ==
    /\ \A n \in 1..Len(reads) : reads[n] = n - 1
    /\ \A n \in 1..Len(patches) :
          /\ \E m \in 1..Len(reads) : reads[m] = patches[n].i
          /\ \A m \in 1..(n - 1) :
                /\ patches[m].i < patches[n].i
                /\ <<patches[m].Namespace, patches[m].Name>>
                      # <<patches[n].Namespace, patches[n].Name>>
    /\ Len(patches) <= NItems
    /\ pc \in {"ForBody", "Patch"} => i = Len(reads) - (IF pc = "Patch" THEN 1 ELSE 0)

\* C10 witness: two config maps were patched in one run.
C10_Witness ==
    /\ Len(patches) = 2
    /\ patches[1].i = 0 /\ patches[2].i = 1

\* engine.kind, in the given store, of the config map namespace/name.
KindIn(maps, namespace, name) ==
    LET j == CHOOSE j \in 1..Len(maps) :
                 maps[j].Namespace = namespace /\ maps[j].Name = name
    IN  DataGet(maps[j].Data, "engine.kind")
\* engine.kind now held by the store for the listed config map k.
StoredKind(k) ==
    KindIn(configMaps, configMapList.Items[k + 1].Namespace,
           configMapList.Items[k + 1].Name)
\* The listing was gone through and no patch call failed.
LoopEndedWithoutFailure ==
    Terminal /\ o.Update /\ Listed /\ err # "PatchApplyError"

\* C11: every patch call carries one "replace" of /data/engine.kind by the
\* new driver type and is addressed to the namespace and name of the config
\* map under evaluation; a patch that succeeded leaves that config map with
\* the new type, so that once the listing has been gone through without a
\* failing patch every eligible config map holds the new type.
C11_PatchReplacesEngineKind ==
    /\ \A n \in 1..Len(patches) :
          LET p == patches[n]
          IN  /\ Len(p.payload) = 1
              /\ p.payload[1].Op = "replace"
              /\ p.payload[1].Path = <<"/data/", "engine.kind">>
              /\ p.payload[1].Value = o.Type
              /\ p.i < NItems
              /\ p.Namespace = configMapList.Items[p.i + 1].Namespace
              /\ p.Name = configMapList.Items[p.i + 1].Name
              /\ p.Namespace = o.Namespace
              /\ p.ok => StoredKind(p.i) = o.Type
    /\ LoopEndedWithoutFailure =>
          \A k \in 0..(NItems - 1) : Eligible(k) => StoredKind(k) = o.Type

\* C11 witness: two config maps that held two different driver types were
\* both patched to a third one.
C11_Witness ==
    /\ LoopEndedWithoutFailure
    /\ NItems = 2
    /\ Len(patches) = 2 /\ AllPatchesOk
    /\ currEngineKind(configMapList.Items[1]) # currEngineKind(configMapList.Items[2])
    /\ currEngineKind(configMapList.Items[1]) # o.Type
    /\ currEngineKind(configMapList.Items[2]) # o.Type
    /\ StoredKind(0) = o.Type /\ StoredKind(1) = o.Type

\* C12: when the patch call for config map k fails nothing is rolled back:
\* the eligible config maps before k hold the new type, and config map k and
\* those after it hold what they held at the start.
C12_PartialUpdateOnFailure ==
    \A n \in 1..Len(patches) :
        ~patches[n].ok =>
            \A k \in 0..(NItems - 1) :
                /\ (k < patches[n].i /\ Eligible(k)) => StoredKind(k) = o.Type
                /\ (k >= patches[n].i \/ ~Eligible(k)) =>
                      StoredKind(k) =
                          KindIn(orig.maps, configMapList.Items[k + 1].Namespace,
                                 configMapList.Items[k + 1].Name)

\* C12 witness: config map 0 was patched away from its type, then the patch
\* of config map 1 failed and the run returned.
C12_Witness ==
    /\ pc = "done"
    /\ Len(patches) = 2 /\ patches[1].ok /\ ~patches[2].ok
    /\ KindIn(orig.maps, patches[1].Namespace, patches[1].Name) # o.Type
    /\ StoredKind(0) = o.Type
    /\ StoredKind(1) # o.Type

\* An error returned before any write or patch call was made.
EarlyFailure ==
    \/ err \in {"ParseError", "ConnectionError"}
    \/ (err = "IOError" /\ ~Called("WriteFile"))

\* C13: a failure ahead of the first mutation is returned with nothing
\* changed: a missing or unreadable file gives IOError and a file that does
\* not decode gives ParseError, without a write; a failing credential
\* resolution, client creation or listing gives an error without a patch call.
C13_EarlyFailureMutatesNothing ==
    /\ EarlyFailure =>
          /\ falcoYaml = orig.file
          /\ configMaps = orig.maps
          /\ patches = <<>>
          /\ ~Called("WriteFile") /\ ~Called("Patch") /\ ~Called("StoreDriver")
          /\ pc \in {"commitReturn", "done"}
          /\ pc = "done" => ret = err
    /\ (Terminal /\ o.Update /\ o.Namespace = "" /\ ~orig.file.exists) =>
          (pc = "done" /\ err = "IOError")
    /\ (Terminal /\ o.Update /\ o.Namespace = "" /\ orig.file.exists
          /\ orig.file.content \in BadFiles) =>
          (pc = "done" /\ err = "ParseError")
    /\ (Terminal /\ o.Update /\ o.Namespace # "" /\ ~Listed) =>
          (pc = "done" /\ err = "ConnectionError" /\ reads = <<>>)

\* C13 witness: the run returned ParseError for a file that does not decode.
C13_Witness ==
    /\ pc = "done" /\ ret = "ParseError"
    /\ orig.file.content \in BadFiles
    /\ falcoYaml = orig.file

\* The local patcher called ReplaceTextInFile for a text that the file does
\* not hold.
WroteWithoutOccurrence ==
    /\ o.Update /\ o.Namespace = ""
    /\ Called("WriteFile")
    /\ Parses(OrigKind)
    /\ FirstAt(orig.file.content, OldText) = 0

\* C14: when engine.kind decodes to a driver type but the text "kind: <old>"
\* is not in the file, the local patcher replaces nothing, leaves the content
\* as it was and returns nil (no error is raised for the missing text; only
\* a failing write of the file gives one).
C14_NoOccurrenceIsSilentNoOp ==
    WroteWithoutOccurrence =>
        /\ err \in {Nil, "IOError"}
        /\ err = Nil => falcoYaml = orig.file
        /\ (pc = "done" /\ err = Nil) => Called("StoreDriver")

\* C14 witness: a run on a file with a quoted or widely spaced kind returned
\* nil with the file as it was.
C14_Witness ==
    /\ WroteWithoutOccurrence
    /\ pc = "done" /\ err = Nil
    /\ falcoYaml = orig.file
    /\ OrigKind # o.Type

\* The local patcher went past its validator, or returned nil at it.
LocalProceeded == pc = "ReplaceTextInFile" \/ Called("WriteFile")
LocalSkipped   ==
    /\ o.Update /\ o.Namespace = ""
    /\ err = Nil /\ ~Called("WriteFile")
\* The cluster patcher went on to patch the listed config map k.
ClusterProceeded(k) == k \in PatchedIndices \/ (pc = "Patch" /\ i = k)
\* The listed config maps that have been evaluated.
Evaluated == {reads[n] : n \in 1..Len(reads)} \cap (0..(NItems - 1))

\* C15: both patchers skip on the same engine kinds: the local patcher skips
\* a file, and the cluster patcher skips a config map, exactly when the kind
\* read from it is not the canonical string of a driver type; a file without
\* engine.kind and a config map without the data key are skipped.
C15_SameSkipPolicy ==
    /\ LocalProceeded => cfg.Engine.Kind \in DriverTypes
    /\ LocalSkipped => cfg.Engine.Kind \notin DriverTypes
    /\ \A k \in Evaluated :
          ClusterProceeded(k) <=>
              currEngineKind(configMapList.Items[k + 1]) \in DriverTypes
    /\ (Called("ReadFile") /\ Index(orig.file.content, KindKey) = 0) =>
          ~LocalProceeded
    /\ \A k \in Evaluated :
          configMapList.Items[k + 1].Data = {} => ~ClusterProceeded(k)

\* C15 witness: a cluster run skipped a config map without the data key and
\* patched a config map with a driver type.
C15_Witness ==
    /\ Terminal
    /\ \E k \in Evaluated :
          configMapList.Items[k + 1].Data = {} /\ ~ClusterProceeded(k)
    /\ \E k \in Evaluated : ClusterProceeded(k)

\* C16 (as stated): the emptiness test and the loop bound are the number of
\* listed config maps: Items is read at indices below that number only, and
\* the run ends by returning, not by crashing.
C16_LoopBoundIsItemCount ==
    Listed =>
        /\ \A n \in 1..Len(reads) : reads[n] < NItems
        /\ pc # "panic"
        /\ (Terminal /\ NItems = 0) => err = "NotFoundError"

\* engine.kind of every stored config map.
Kinds(maps) == [j \in 1..Len(maps) |-> DataGet(maps[j].Data, "engine.kind")]

\* C17 (as stated): a second successful commit with the same driver type
\* leaves the file content and every config map's engine.kind as the first
\* one left them.
C17_SecondCommitChangesNothing ==
    (run >= 2 /\ o.Update /\ pc = "done" /\ err = Nil) =>
        /\ falcoYaml.content = prev.file.content
        /\ Kinds(configMaps) = Kinds(prev.maps)

\* C18: with the update option off commit is not invoked: the local file and
\* the cluster are neither read nor changed, and the driver selection is
\* still stored.
C18_NoUpdateNoCommit ==
    ~o.Update =>
        /\ pc \in {"RunDriverConfig", "StoreDriver", "done"}
        /\ err = "unset"
        /\ \A n \in 1..Len(calls) : calls[n] = "StoreDriver"
        /\ patches = <<>> /\ reads = <<>>
        /\ yamlFile = <<>> /\ configMapList.Items = <<>>
        /\ falcoYaml = orig.file /\ configMaps = orig.maps
        /\ pc = "done" => (calls = <<"StoreDriver">> /\ ret \in {Nil, "StoreError"})

\* C18 witness: the selection was stored while a file holding another driver
\* type was left alone.
C18_Witness ==
    /\ ~o.Update /\ pc = "done" /\ ret = Nil
    /\ calls = <<"StoreDriver">>
    /\ orig.file.exists /\ Parses(OrigKind) /\ OrigKind # o.Type
    /\ Index(orig.file.content, OldText) > 0
    /\ falcoYaml = orig.file

====
